---- MODULE Spec2Model ----
(***************************************************************************)
(* A model of scripts/export_maven_prs.py: the archival filter and its     *)
(* edit of the YAML include list, the per-repository pull-request listing, *)
(* the build-status reducer, the CSV and AsciiDoc serializers and the      *)
(* orchestrating main block.                                               *)
(*                                                                         *)
(* Text that the script inspects character by character (repository names, *)
(* lines of the YAML file, timestamps, URLs) is a sequence of one-character*)
(* strings; text that is only copied or compared for equality (titles,     *)
(* logins, state tokens, label names) is a TLA+ string.  A Python dict is a*)
(* function whose DOMAIN is the set of keys present.                       *)
(***************************************************************************)
EXTENDS Integers, Sequences, FiniteSets, TLC

VARIABLES
    pc,           \* position of the program (or of the harness of a pure function)
    args,         \* argparse namespace: format, author, dependabot
    MAVEN_REPOS,  \* the module-level working repository list
    ghInstalled,  \* whether the 'gh' binary is on the PATH
    yaml,         \* the file at YAML_PATH: [exists, text]
    repos,        \* filter_and_cleanup_archived: its parameter
    archived,     \* filter_and_cleanup_archived: local list
    remaining,    \* filter_and_cleanup_archived: local list
    idx,          \* index of the loop the program is in
    all_prs,      \* get_all_maven_prs: accumulated records
    prs,          \* the list handed to the serializer
    report,       \* the output file: absent, CSV rows or AsciiDoc lines
    crash,        \* the uncaught exception that ended the run, or "none"
    events,       \* history: external calls and file writes, in order
    hist,         \* history: the last two remove_repo_from_yaml calls
    input,        \* argument of the pure function under check
    output        \* its return value

vars == <<pc, args, MAVEN_REPOS, ghInstalled, yaml, repos, archived, remaining,
          idx, all_prs, prs, report, crash, events, hist, input, output>>

----------------------------------------------------------------------------
(* Bounds of the model *)

MaxRollup == 3
MaxLines == 2
MaxPrs == 3

----------------------------------------------------------------------------
(* Text *)

UpperCase ==
    <<"A","B","C","D","E","F","G","H","I","J","K","L","M",
      "N","O","P","Q","R","S","T","U","V","W","X","Y","Z">>

LowerCase ==
    <<"a","b","c","d","e","f","g","h","i","j","k","l","m",
      "n","o","p","q","r","s","t","u","v","w","x","y","z">>

Digits == <<"0","1","2","3","4","5","6","7","8","9">>

\* The other characters of the texts of the model, each with its code point.
Punctuation ==
    {<<"\t", 9>>, <<"\n", 10>>, <<" ", 32>>, <<"#", 35>>, <<",", 44>>,
     <<"-", 45>>, <<".", 46>>, <<"/", 47>>, <<":", 58>>, <<"_", 95>>}

IndexOf(seq, c) == CHOOSE i \in 1..Len(seq) : seq[i] = c

Range(seq) == {seq[i] : i \in 1..Len(seq)}

\* The characters of the texts of the model.
Chars ==
    Range(UpperCase) \cup Range(LowerCase) \cup Range(Digits)
        \cup {p[1] : p \in Punctuation}

\* ord(c)
OrdTable ==
    [c \in Chars |->
        IF c \in Range(Digits) THEN 47 + IndexOf(Digits, c)
        ELSE IF c \in Range(UpperCase) THEN 64 + IndexOf(UpperCase, c)
        ELSE IF c \in Range(LowerCase) THEN 96 + IndexOf(LowerCase, c)
        ELSE (CHOOSE p \in Punctuation : p[1] = c)[2]]

Ord(c) == OrdTable[c]

\* One character under re.IGNORECASE: ASCII letters fold to lower case.
LowerTable ==
    [c \in Chars |->
        IF c \in Range(UpperCase) THEN LowerCase[IndexOf(UpperCase, c)] ELSE c]

Lower(c) == LowerTable[c]

\* \s of the re module, within one line of text.
IsSpace(c) == c \in {" ", "\t"}

\* \w of the re module.
WordChars == Range(Digits) \cup Range(UpperCase) \cup Range(LowerCase) \cup {"_"}

IsWord(c) == c \in WordChars

\* Python's < on str: lexicographic by code point, a proper prefix first.
RECURSIVE StrLess(_, _)
StrLess(s, t) ==
    IF t = <<>> THEN FALSE
    ELSE IF s = <<>> THEN TRUE
    ELSE IF Ord(Head(s)) # Ord(Head(t)) THEN Ord(Head(s)) < Ord(Head(t))
    ELSE StrLess(Tail(s), Tail(t))

\* str(n) for n >= 0.
RECURSIVE IntToStr(_)
IntToStr(n) ==
    IF n < 10 THEN <<Digits[n + 1]>>
    ELSE IntToStr(n \div 10) \o <<Digits[(n % 10) + 1]>>

\* s[:n]
Take(s, n) == SubSeq(s, 1, IF n < Len(s) THEN n ELSE Len(s))

\* dict.get(key, default)
DictGet(d, k, default) == IF k \in DOMAIN d THEN d[k] ELSE default

\* All sequences over S of length at most n.
SeqUpTo(S, n) == UNION {[1..k -> S] : k \in 0..n}

----------------------------------------------------------------------------
(* Repository names and literals of the script *)

maven_site == <<"m","a","v","e","n","-","s","i","t","e">>
maven == <<"m","a","v","e","n">>
maven_jxr == <<"m","a","v","e","n","-","j","x","r">>

\* The static list, cut to three of its entries, in the order of the source.
MAVEN_REPOS_INIT == <<maven_site, maven, maven_jxr>>

\* 'https://github.com/apache/'
GITHUB_APACHE ==
    <<"h","t","t","p","s",":","/","/","g","i","t","h","u","b",".","c","o","m",
      "/","a","p","a","c","h","e","/">>

\* f'https://github.com/apache/{repo_name}/pull/{pr_number}/checks'
ChecksUrl(repo_name, pr_number) ==
    GITHUB_APACHE \o repo_name \o <<"/","p","u","l","l","/">>
        \o IntToStr(pr_number) \o <<"/","c","h","e","c","k","s">>

----------------------------------------------------------------------------
(* get_build_status *)

FAILURE_STATES == {"FAILURE", "FAILED", "ERROR"}
PENDING_STATES == {"PENDING", "IN_PROGRESS", "WAITING", "QUEUED"}
SUCCESS_STATES == {"SUCCESS", "SUCCESSFUL", "COMPLETED"}

\* context.get('state', context.get('conclusion', 'UNKNOWN'))
ContextState(context) ==
    DictGet(context, "state", DictGet(context, "conclusion", "UNKNOWN"))

\* The for loop over rollup: the three flags after contexts i..Len(rollup).
RECURSIVE RollupFlags(_, _, _)
RollupFlags(rollup, i, flags) ==
    IF i > Len(rollup) THEN flags
    ELSE LET context_state == ContextState(rollup[i])
         IN RollupFlags(rollup, i + 1,
                IF context_state \in FAILURE_STATES
                    THEN [flags EXCEPT !.has_failure = TRUE]
                ELSE IF context_state \in PENDING_STATES
                    THEN [flags EXCEPT !.has_pending = TRUE]
                ELSE IF context_state \in SUCCESS_STATES
                    THEN [flags EXCEPT !.has_success = TRUE]
                ELSE flags)

\* A mutant: pending takes precedence over failure.
get_build_status_pending_first(pr) ==
    LET checks_url == ChecksUrl(pr.repository.name, pr.number)
        rollup == DictGet(pr, "statusCheckRollup", <<>>)
        flags == RollupFlags(rollup, 1,
            [has_failure |-> FALSE, has_pending |-> FALSE, has_success |-> FALSE])
    IN IF rollup = <<>> THEN <<"UNKNOWN", checks_url>>
       ELSE IF flags.has_pending THEN <<"PENDING", checks_url>>
       ELSE IF flags.has_failure THEN <<"FAILURE", checks_url>>
       ELSE IF flags.has_success THEN <<"SUCCESS", checks_url>>
       ELSE <<"UNKNOWN", checks_url>>

\* A mutant: the earlier variant, which returned a failing check's own URL.
get_build_status_target_url(pr) ==
    LET checks_url == ChecksUrl(pr.repository.name, pr.number)
        rollup == DictGet(pr, "statusCheckRollup", <<>>)
        flags == RollupFlags(rollup, 1,
            [has_failure |-> FALSE, has_pending |-> FALSE, has_success |-> FALSE])
        failing == {i \in 1..Len(rollup) :
                        /\ ContextState(rollup[i]) \in FAILURE_STATES
                        /\ "targetUrl" \in DOMAIN rollup[i]}
    IN IF rollup = <<>> THEN <<"UNKNOWN", checks_url>>
       ELSE IF flags.has_failure
            THEN <<"FAILURE", IF failing # {}
                              THEN rollup[CHOOSE i \in failing : TRUE].targetUrl
                              ELSE checks_url>>
       ELSE IF flags.has_pending THEN <<"PENDING", checks_url>>
       ELSE IF flags.has_success THEN <<"SUCCESS", checks_url>>
       ELSE <<"UNKNOWN", checks_url>>

\* get_build_status(pr): <<state, checks_url>>.  An absent statusCheckRollup
\* (pr.get gives None) and an empty one are both falsy.
get_build_status(pr) ==
    LET checks_url == ChecksUrl(pr.repository.name, pr.number)
        rollup == DictGet(pr, "statusCheckRollup", <<>>)
        flags == RollupFlags(rollup, 1,
            [has_failure |-> FALSE, has_pending |-> FALSE, has_success |-> FALSE])
    IN IF rollup = <<>> THEN <<"UNKNOWN", checks_url>>
       ELSE IF flags.has_failure THEN <<"FAILURE", checks_url>>
       ELSE IF flags.has_pending THEN <<"PENDING", checks_url>>
       ELSE IF flags.has_success THEN <<"SUCCESS", checks_url>>
       ELSE <<"UNKNOWN", checks_url>>

----------------------------------------------------------------------------
(* remove_repo_from_yaml *)

\* The literal text of the pattern before the repository name:
\* 'github:repository::https://github\.com/apache/'
YAML_ITEM_URL ==
    <<"g","i","t","h","u","b",":","r","e","p","o","s","i","t","o","r","y",":",":">>
        \o GITHUB_APACHE

\* The index of the first line feed of text from index i on (Len + 1 when
\* there is none).
RECURSIVE LineEnd(_, _)
LineEnd(text, i) ==
    IF i <= Len(text) /\ text[i] # "\n" THEN LineEnd(text, i + 1) ELSE i

\* str.splitlines() of text whose only line separator is the line feed (the
\* file is read in text mode, which maps every line ending to it).
RECURSIVE SplitLines(_)
SplitLines(text) ==
    IF text = <<>> THEN <<>>
    ELSE LET end == LineEnd(text, 1)
         IN <<SubSeq(text, 1, end - 1)>> \o
            (IF end >= Len(text) THEN <<>>
             ELSE SplitLines(SubSeq(text, end + 1, Len(text))))

\* '\n'.join(lines) + '\n'
RECURSIVE JoinLines(_)
JoinLines(lines) ==
    IF lines = <<>> THEN <<"\n">>
    ELSE IF Len(lines) = 1 THEN lines[1] \o <<"\n">>
    ELSE lines[1] \o <<"\n">> \o JoinLines(Tail(lines))

\* \s* from index i of ln: the index of the first character it leaves.
RECURSIVE SkipSpaces(_, _)
SkipSpaces(ln, i) ==
    IF i <= Len(ln) /\ IsSpace(ln[i]) THEN SkipSpaces(ln, i + 1) ELSE i

\* -* from index i of ln: the index of the first character it leaves.
RECURSIVE SkipDashes(_, _)
SkipDashes(ln, i) ==
    IF i <= Len(ln) /\ ln[i] = "-" THEN SkipDashes(ln, i + 1) ELSE i

\* Whether lit occurs in ln at index i, letter case ignored.
HasAtIgnoreCase(ln, i, lit) ==
    /\ i + Len(lit) - 1 <= Len(ln)
    /\ \A k \in 1..Len(lit) : Lower(ln[i + k - 1]) = Lower(lit[k])

\* \b before index i of ln: exactly one of the characters around it is a \w.
WordBoundary(ln, i) ==
    LET before == i > 1 /\ i - 1 <= Len(ln) /\ IsWord(ln[i - 1])
        after == i >= 1 /\ i <= Len(ln) /\ IsWord(ln[i])
    IN before # after

\* pattern.match(ln) for
\* ^\s*-+\s*github:repository::https://github\.com/apache/{re.escape(repo)}\b.*$
\* compiled with re.IGNORECASE.
PatternMatch(repo, ln) ==
    LET dash == SkipSpaces(ln, 1)
        gap == SkipDashes(ln, dash)
        url == SkipSpaces(ln, gap)
        lit == YAML_ITEM_URL \o repo
    IN /\ gap > dash
       /\ HasAtIgnoreCase(ln, url, lit)
       /\ WordBoundary(ln, url + Len(lit))

\* What the file system does to the call: nothing, a failing read_text, a
\* write_text that fails on opening the file, or one that fails after the
\* file was truncated.
IoOutcomes == {"ok", "read_error", "write_error_open", "write_error_truncated"}

\* A mutant: the file is rewritten whether or not a line matched.
remove_repo_from_yaml_always_writes(repo, file, io) ==
    IF ~file.exists
    THEN [file |-> file, ret |-> FALSE, wrote |-> FALSE, error |-> FALSE]
    ELSE IF io = "read_error"
    THEN [file |-> file, ret |-> FALSE, wrote |-> FALSE, error |-> TRUE]
    ELSE LET lines == SplitLines(file.text)
             new_lines == SelectSeq(lines, LAMBDA ln : ~PatternMatch(repo, ln))
         IN [file |-> [file EXCEPT !.text = JoinLines(new_lines)],
             ret |-> Len(new_lines) # Len(lines), wrote |-> TRUE, error |-> FALSE]

\* remove_repo_from_yaml(repo) on the file `file`: the file afterwards, the
\* value returned, whether the file was written to, and whether the except
\* branch was taken.
remove_repo_from_yaml(repo, file, io) ==
    IF ~file.exists
    THEN [file |-> file, ret |-> FALSE, wrote |-> FALSE, error |-> FALSE]
    ELSE IF io = "read_error"
    THEN [file |-> file, ret |-> FALSE, wrote |-> FALSE, error |-> TRUE]
    ELSE LET lines == SplitLines(file.text)
             new_lines == SelectSeq(lines, LAMBDA ln : ~PatternMatch(repo, ln))
         IN IF Len(new_lines) # Len(lines)
            THEN IF io = "write_error_open"
                 THEN [file |-> file, ret |-> FALSE, wrote |-> FALSE, error |-> TRUE]
                 ELSE IF io = "write_error_truncated"
                 THEN [file |-> [file EXCEPT !.text = <<>>],
                       ret |-> FALSE, wrote |-> TRUE, error |-> TRUE]
                 ELSE [file |-> [file EXCEPT !.text = JoinLines(new_lines)],
                       ret |-> TRUE, wrote |-> TRUE, error |-> FALSE]
            ELSE [file |-> file, ret |-> FALSE, wrote |-> FALSE, error |-> FALSE]

----------------------------------------------------------------------------
(* export_to_csv *)

CSV_HEADER ==
    <<"Repository", "PR Number", "Title", "Author", "Created", "Updated",
      "Draft", "Build Status", "Build URL", "Labels", "PR URL">>

\* ', '.join(names)
RECURSIVE JoinCommaSpace(_)
JoinCommaSpace(names) ==
    IF names = <<>> THEN <<>>
    ELSE IF Len(names) = 1 THEN names[1]
    ELSE names[1] \o <<",", " ">> \o JoinCommaSpace(Tail(names))

\* A mutant: the PR number compared as text, not as a number.
CsvKeyLessTextual(a, b) ==
    \/ StrLess(a.repository.name, b.repository.name)
    \/ /\ a.repository.name = b.repository.name
       /\ StrLess(IntToStr(a.number), IntToStr(b.number))

\* The order of the sort key (x['repository']['name'], x['number']).
CsvKeyLess(a, b) ==
    \/ StrLess(a.repository.name, b.repository.name)
    \/ /\ a.repository.name = b.repository.name
       /\ a.number < b.number

\* list.sort is stable: x goes behind every element that is not greater.
RECURSIVE CsvInsert(_, _)
CsvInsert(sorted, x) ==
    IF sorted = <<>> THEN <<x>>
    ELSE IF CsvKeyLess(x, Head(sorted)) THEN <<x>> \o sorted
    ELSE <<Head(sorted)>> \o CsvInsert(Tail(sorted), x)

\* prs.sort(key=lambda x: (x['repository']['name'], x['number']))
RECURSIVE CsvSort(_)
CsvSort(list) ==
    IF list = <<>> THEN <<>>
    ELSE CsvInsert(CsvSort(SubSeq(list, 1, Len(list) - 1)), list[Len(list)])

\* The cells of one data row, each as csv.writer writes it (str of the value).
CsvRow(pr) ==
    LET status == get_build_status(pr)
    IN <<pr.repository.name,
         IntToStr(pr.number),
         pr.title,
         pr.author.login,
         Take(pr.createdAt, 10),
         Take(pr.updatedAt, 10),
         IF DictGet(pr, "isDraft", FALSE) THEN "Yes" ELSE "No",
         status[1],
         status[2],
         JoinCommaSpace([i \in 1..Len(DictGet(pr, "labels", <<>>)) |-> pr.labels[i].name]),
         pr.url>>

\* export_to_csv(prs): the rows of the file, and prs as the call leaves it
\* (sorted in place).
export_to_csv(list) ==
    LET sorted == CsvSort(list)
    IN [rows |-> <<CSV_HEADER>> \o [i \in 1..Len(sorted) |-> CsvRow(sorted[i])],
        prs |-> sorted]

----------------------------------------------------------------------------
(* export_to_asciidoc *)

\* The keys of the dict repos in sorted() order: the distinct repository
\* names of the list, ascending.
RECURSIVE SortedNames(_)
SortedNames(names) ==
    IF names = {} THEN <<>>
    ELSE LET least == CHOOSE n \in names : \A m \in names : ~StrLess(m, n)
         IN <<least>> \o SortedNames(names \ {least})

\* repos[repo_name]: the records of one repository, in the order of the list.
RepoGroup(list, repo_name) == SelectSeq(list, LAMBDA pr : pr.repository.name = repo_name)

\* A mutant: the group sorted oldest first.
RECURSIVE AdocInsertAscending(_, _)
AdocInsertAscending(sorted, x) ==
    IF sorted = <<>> THEN <<x>>
    ELSE IF StrLess(x.createdAt, Head(sorted).createdAt) THEN <<x>> \o sorted
    ELSE <<Head(sorted)>> \o AdocInsertAscending(Tail(sorted), x)

\* list.sort(reverse=True) is stable too: x goes behind every element whose
\* key is not smaller.
RECURSIVE AdocInsert(_, _)
AdocInsert(sorted, x) ==
    IF sorted = <<>> THEN <<x>>
    ELSE IF StrLess(Head(sorted).createdAt, x.createdAt) THEN <<x>> \o sorted
    ELSE <<Head(sorted)>> \o AdocInsert(Tail(sorted), x)

\* repo_prs.sort(key=lambda x: x['createdAt'], reverse=True)
RECURSIVE AdocSort(_)
AdocSort(list) ==
    IF list = <<>> THEN <<>>
    ELSE AdocInsert(AdocSort(SubSeq(list, 1, Len(list) - 1)), list[Len(list)])

\* The four lines of one pull request.  A line is the sequence of the pieces
\* its f-string is made of.
AdocPrLines(pr) ==
    LET status == get_build_status(pr)
    IN << <<"| ", pr.title>>,
          <<"| ", pr.createdAt>>,
          IF status[2] # <<>>
              THEN <<"| ", status[2], "[", status[1], "]">>
              ELSE <<"| ", status[1]>>,
          <<"| ", pr.url, "[", IntToStr(pr.number), "]">> >>

RECURSIVE AdocGroupLines(_)
AdocGroupLines(group) ==
    IF group = <<>> THEN <<>>
    ELSE AdocPrLines(Head(group)) \o AdocGroupLines(Tail(group))

\* The block of one repository: its header row, its pull requests, an empty line.
AdocBlock(list, repo_name) ==
    << <<"4+| *", GITHUB_APACHE \o repo_name \o <<"/","p","u","l","l","s">>,
         "[", repo_name, "]*">> >>
        \o AdocGroupLines(AdocSort(RepoGroup(list, repo_name)))
        \o << <<>> >>

RECURSIVE AdocBlocks(_, _)
AdocBlocks(list, names) ==
    IF names = <<>> THEN <<>>
    ELSE AdocBlock(list, Head(names)) \o AdocBlocks(list, Tail(names))

\* export_to_asciidoc(prs, title=title): the lines of the file.  now is the
\* formatted time of the call.
export_to_asciidoc(list, title, now) ==
    << <<"= ", title>>,
       <<>>,
       <<"The following Apache Maven projects have open Pull-Requests as of ", now, ".">>,
       <<>>,
       <<"[cols=\"8,3,2,1\", options=\"header\"]">>,
       <<"|===">>,
       <<"| Title | Date | Build Status | Id">>,
       <<>> >>
        \o AdocBlocks(list, SortedNames({list[i].repository.name : i \in 1..Len(list)}))
        \o << <<"|===">> >>

----------------------------------------------------------------------------
(* The gh CLI, gh_check_repo_archived and get_prs_for_repo *)

\* How subprocess.run and json.loads end for 'gh repo view apache/<repo>
\* --json archived': no gh binary, a non-zero exit, output that is no JSON,
\* or the JSON object, with the flag true, false or missing.
ViewOutcomes ==
    IF ghInstalled
    THEN {"CalledProcessError", "JSONDecodeError", "archived_true",
          "archived_false", "archived_absent"}
    ELSE {"FileNotFoundError"}

\* A mutant: a query that failed counts as archived.
gh_check_repo_archived_true_on_failure(outcome) ==
    outcome \in {"archived_true", "CalledProcessError"}

\* gh_check_repo_archived(repo), given how its query ended: every except
\* branch returns False, and so does data.get('archived', False) for a flag
\* that is false or missing.
gh_check_repo_archived(outcome) ==
    IF outcome = "FileNotFoundError" THEN FALSE
    ELSE IF outcome = "CalledProcessError" THEN FALSE
    ELSE IF outcome = "JSONDecodeError" THEN FALSE
    ELSE outcome = "archived_true"

\* pr['repository'] = {'name': repo}
WithRepository(pr, repo) ==
    [k \in DOMAIN pr \cup {"repository"} |->
        IF k = "repository" THEN [name |-> repo] ELSE pr[k]]

\* get_prs_for_repo(repo), given how its query ended (an exception name, or
\* "listed" with the array gh printed): the list returned, or the exception
\* that leaves the function.  Only CalledProcessError is caught.
get_prs_for_repo(repo, outcome, listed) ==
    IF outcome = "listed"
    THEN [raised |-> "none", prs |-> [i \in 1..Len(listed) |-> WithRepository(listed[i], repo)]]
    ELSE IF outcome = "CalledProcessError"
    THEN [raised |-> "none", prs |-> <<>>]
    ELSE [raised |-> outcome, prs |-> <<>>]

\* A mutant: the whole input list is returned, archived repositories too.
filter_and_cleanup_archived_unfiltered(input_repos, archived_repos, remaining_repos) ==
    input_repos

\* The value filter_and_cleanup_archived returns: its list remaining.
filter_and_cleanup_archived_return(input_repos, archived_repos, remaining_repos) ==
    remaining_repos

\* [pr for pr in prs if pr['author']['login'] == args.author], applied when
\* args.author is truthy: neither None (<<>> here) nor the empty string.
AuthorFilter(list, author) ==
    IF author # <<>> /\ author[1] # ""
    THEN SelectSeq(list, LAMBDA pr : pr.author.login = author[1])
    ELSE list

----------------------------------------------------------------------------
(* The reducer on its own: get_build_status applied to one record *)

\* A target URL of a single check, as a StatusContext carries it.
CI_URL == <<"h","t","t","p","s",":","/","/","c","i","/","j","o","b">>

\* Entries of statusCheckRollup: a StatusContext has 'state', a CheckRun has
\* 'conclusion' and 'status' and no 'state'.
ContextPool ==
    { [state |-> "FAILURE", targetUrl |-> CI_URL],
      [state |-> "FAILED"],
      [state |-> "ERROR"],
      [conclusion |-> "FAILURE", status |-> "COMPLETED"],
      [state |-> "PENDING", targetUrl |-> CI_URL],
      [state |-> "IN_PROGRESS"],
      [state |-> "WAITING"],
      [state |-> "QUEUED"],
      [state |-> "SUCCESS", targetUrl |-> CI_URL],
      [state |-> "SUCCESSFUL"],
      [state |-> "COMPLETED"],
      [conclusion |-> "SUCCESS", status |-> "COMPLETED"],
      [conclusion |-> "", status |-> "IN_PROGRESS"],
      [conclusion |-> "NEUTRAL", status |-> "COMPLETED"],
      [state |-> "failure"],
      [name |-> "build"] }

StatusInputs ==
    LET base == { [repository |-> [name |-> maven], number |-> 7],
                  [repository |-> [name |-> maven_site], number |-> 1234] }
    IN base \cup
       { [repository |-> b.repository, number |-> b.number, statusCheckRollup |-> r] :
            b \in base, r \in SeqUpTo(ContextPool, MaxRollup) }

\* The variables of the run, at rest while a single function is exercised.
RunAtRest ==
    /\ args = [format |-> "csv", author |-> <<>>, dependabot |-> FALSE]
    /\ MAVEN_REPOS = MAVEN_REPOS_INIT
    /\ ghInstalled = TRUE
    /\ repos = <<>>
    /\ archived = <<>>
    /\ remaining = <<>>
    /\ idx = 0
    /\ all_prs = <<>>
    /\ crash = "none"
    /\ events = <<>>

InitStatus ==
    /\ pc = "call"
    /\ input \in StatusInputs
    /\ output = <<>>
    /\ RunAtRest
    /\ yaml = [exists |-> FALSE, text |-> <<>>]
    /\ hist = <<>>
    /\ prs = <<>>
    /\ report = <<>>

Call_get_build_status ==
    /\ pc = "call"
    /\ output' = get_build_status(input)
    /\ pc' = "returned"
    /\ UNCHANGED <<args, MAVEN_REPOS, ghInstalled, yaml, repos, archived, remaining,
                   idx, all_prs, prs, report, crash, events, hist, input>>

NextStatus == Call_get_build_status

SpecStatus == InitStatus /\ [][NextStatus]_vars

\* The rollup of the record under check (empty when absent).
InputRollup == DictGet(input, "statusCheckRollup", <<>>)

InputStates == {ContextState(InputRollup[i]) : i \in 1..Len(InputRollup)}

\* The sequence s rearranged by the permutation p of its indices.
Permuted(s, p) == [i \in 1..Len(s) |-> s[p[i]]]

\* C1: for a non-empty rollup the verdict is FAILURE when some state is
\* failure-like, else PENDING when some state is pending-like, else SUCCESS
\* when all states are success-like; and it is the same for every order of
\* the rollup.
C1_Precedence ==
    (pc = "returned" /\ InputRollup # <<>>) =>
        /\ (InputStates \cap FAILURE_STATES # {}) => output[1] = "FAILURE"
        /\ (InputStates \cap FAILURE_STATES = {} /\ InputStates \cap PENDING_STATES # {})
              => output[1] = "PENDING"
        /\ (InputStates \subseteq SUCCESS_STATES) => output[1] = "SUCCESS"
        /\ \A p \in Permutations(1..Len(InputRollup)) :
              get_build_status([input EXCEPT
                  !.statusCheckRollup = Permuted(InputRollup, p)])[1] = output[1]

\* A rollup holding a success first, then a pending, then a failure: FAILURE.
C1_Witness ==
    /\ pc = "returned"
    /\ Len(InputRollup) = 3
    /\ ContextState(InputRollup[1]) \in SUCCESS_STATES
    /\ ContextState(InputRollup[2]) \in PENDING_STATES
    /\ ContextState(InputRollup[3]) \in FAILURE_STATES
    /\ output[1] = "FAILURE"

\* The value of a decimal numeral; -1 for text that is none.
RECURSIVE DecimalValue(_)
DecimalValue(s) ==
    IF s = <<>> \/ \E i \in 1..Len(s) : s[i] \notin Range(Digits) THEN -1
    ELSE IF Len(s) = 1 THEN IndexOf(Digits, s[1]) - 1
    ELSE 10 * DecimalValue(SubSeq(s, 1, Len(s) - 1)) + IndexOf(Digits, s[Len(s)]) - 1

\* url is https://github.com/apache/<name>/pull/<number in decimal>/checks
IsChecksPage(url, name, number) ==
    LET head == GITHUB_APACHE \o name \o <<"/","p","u","l","l","/">>
        tail == <<"/","c","h","e","c","k","s">>
        numeral == SubSeq(url, Len(head) + 1, Len(url) - Len(tail))
    IN /\ Len(url) > Len(head) + Len(tail)
       /\ SubSeq(url, 1, Len(head)) = head
       /\ SubSeq(url, Len(url) - Len(tail) + 1, Len(url)) = tail
       /\ numeral[1] # "0"
       /\ DecimalValue(numeral) = number

\* C9: an absent or empty rollup gives UNKNOWN, and for every input the
\* returned URL is the checks page of the record's repository and number.
C9_UnknownAndChecksUrl ==
    pc = "returned" =>
        /\ InputRollup = <<>> => output[1] = "UNKNOWN"
        /\ IsChecksPage(output[2], input.repository.name, input.number)

\* A record without statusCheckRollup was reduced to UNKNOWN.
C9_Witness ==
    /\ pc = "returned"
    /\ "statusCheckRollup" \notin DOMAIN input
    /\ output[1] = "UNKNOWN"

----------------------------------------------------------------------------
(* The YAML edit on its own: remove_repo_from_yaml called twice in a row *)

\* '  - github:repository::https://github.com/apache/<repo>'
ItemLine(repo) == <<" ", " ", "-", " ">> \o YAML_ITEM_URL \o repo

\* Lines a YAML include list holds.
LinePool ==
    { <<"r","e","p","o","s","i","t","o","r","i","e","s",":">>,
      <<>>,
      ItemLine(maven_site),
      ItemLine(maven),
      ItemLine(maven_jxr) \o <<" ", "#", " ", "d", "o", "c", "s">>,
      ItemLine(maven_site \o <<"s">>),
      <<"#">> \o ItemLine(maven),
      <<"-", "-", "\t">>
        \o <<"G","i","t","H","u","b",":","R","e","p","o","s","i","t","o","r","y",":",":",
             "H","T","T","P","S",":","/","/","G","i","t","H","u","b",".","c","o","m",
             "/","A","p","a","c","h","e","/","M","a","v","e","n">> }

\* '\n'.join(lines): a file whose last line has no line feed.
JoinNoFinalNewline(lines) ==
    IF lines = <<>> THEN <<>> ELSE SubSeq(JoinLines(lines), 1, Len(JoinLines(lines)) - 1)

YamlTexts ==
    UNION { {JoinLines(ls), JoinNoFinalNewline(ls)} : ls \in SeqUpTo(LinePool, MaxLines) }

InitYaml ==
    /\ pc = "first"
    /\ yaml \in {[exists |-> FALSE, text |-> <<>>]} \cup [exists : {TRUE}, text : YamlTexts]
    /\ hist = <<>>
    /\ RunAtRest
    /\ input = <<>>
    /\ output = <<>>
    /\ prs = <<>>
    /\ report = <<>>

\* One call of remove_repo_from_yaml, for any repository of the list; hist
\* holds the calls made, the latest first.
Call_remove_repo_from_yaml ==
    \E repo \in Range(MAVEN_REPOS_INIT), io \in IoOutcomes :
        LET r == remove_repo_from_yaml(repo, yaml, io)
        IN /\ pc \in {"first", "second"}
           /\ pc' = IF pc = "first" THEN "second" ELSE "returned"
           /\ yaml' = r.file
           /\ hist' = <<[repo |-> repo, before |-> yaml, ret |-> r.ret,
                         wrote |-> r.wrote, error |-> r.error]>> \o hist
           /\ UNCHANGED <<args, MAVEN_REPOS, ghInstalled, repos, archived,
                          remaining, idx, all_prs, prs, report, crash, events,
                          input, output>>

NextYaml == Call_remove_repo_from_yaml

SpecYaml == InitYaml /\ [][NextYaml]_vars

\* The repository a list-item line names: after the dash marker and the
\* URL text, the longest run of the characters a repository name is made of.
RECURSIVE NameEnd(_, _)
NameEnd(ln, i) ==
    IF i <= Len(ln) /\ (IsWord(ln[i]) \/ ln[i] \in {"-", "."}) THEN NameEnd(ln, i + 1) ELSE i

IsItemLine(ln) ==
    LET dash == SkipSpaces(ln, 1)
        gap == SkipDashes(ln, dash)
    IN gap > dash /\ HasAtIgnoreCase(ln, SkipSpaces(ln, gap), YAML_ITEM_URL)

ItemRepo(ln) ==
    LET start == SkipSpaces(ln, SkipDashes(ln, SkipSpaces(ln, 1))) + Len(YAML_ITEM_URL)
    IN SubSeq(ln, start, NameEnd(ln, start) - 1)

LowerStr(s) == [i \in 1..Len(s) |-> Lower(s[i])]

\* The line is a list item referencing apache/<repo>, letter case ignored.
References(ln, repo) == IsItemLine(ln) /\ LowerStr(ItemRepo(ln)) = LowerStr(repo)

\* a occurs in b as a subsequence: its elements, in its order.
RECURSIVE IsSubsequence(_, _)
IsSubsequence(a, b) ==
    IF a = <<>> THEN TRUE
    ELSE IF b = <<>> THEN FALSE
    ELSE IF Head(a) = Head(b) THEN IsSubsequence(Tail(a), Tail(b))
    ELSE IsSubsequence(a, Tail(b))

\* The latest call read and, where it had to, wrote the file without an error.
LastCallCompleted == hist # <<>> /\ hist[1].before.exists /\ ~hist[1].error

\* C2: after remove_repo_from_yaml(R) no line referencing apache/R is left,
\* and every line that references another repository, or none, is kept, in
\* the original order.
C2_RemovesOnlyTheRepo ==
    LastCallCompleted =>
        LET R == hist[1].repo
            before == SplitLines(hist[1].before.text)
            after == SplitLines(yaml.text)
        IN /\ \A i \in 1..Len(after) : ~References(after[i], R)
           /\ IsSubsequence(SelectSeq(before, LAMBDA ln : ~References(ln, R)), after)

\* C5: the file is written only when a line matched the pattern; and a
\* second removal of the same repository, after one that completed, writes
\* nothing, leaves the text as it was and returns False.
C5_SecondRemovalChangesNothing ==
    /\ (hist # <<>> /\ hist[1].wrote) =>
          LET before == SplitLines(hist[1].before.text)
          IN \E i \in 1..Len(before) : PatternMatch(hist[1].repo, before[i])
    /\ (Len(hist) = 2 /\ hist[1].repo = hist[2].repo
            /\ hist[2].before.exists /\ ~hist[2].error) =>
          /\ yaml = hist[1].before
          /\ ~hist[1].wrote
          /\ ~hist[1].ret

\* A first call removed lines and a second call for the same repository,
\* on the rewritten file, returned False.
C5_Witness ==
    /\ Len(hist) = 2
    /\ hist[1].repo = hist[2].repo
    /\ hist[2].ret
    /\ hist[2].wrote
    /\ hist[1].before.text # hist[2].before.text
    /\ ~hist[1].ret
    /\ yaml = hist[1].before

----------------------------------------------------------------------------
(* The serializers on their own: one list of records, written once *)

T_2024_09_30 == <<"2","0","2","4","-","0","9","-","3","0","T","0","8",":","1","5",":","0","0","Z">>
T_2024_10_01_AM == <<"2","0","2","4","-","1","0","-","0","1","T","0","7",":","3","0",":","0","0","Z">>
T_2024_10_01_PM == <<"2","0","2","4","-","1","0","-","0","1","T","1","9",":","4","5",":","1","0","Z">>
T_2025_01_15 == <<"2","0","2","5","-","0","1","-","1","5","T","1","2",":","0","0",":","0","0","Z">>

\* One object of the JSON array 'gh pr list' prints for apache/<repo>.
ListedPullRequest(repo, number, title, login, created, rollup) ==
    [ number |-> number,
      title |-> title,
      author |-> [login |-> login],
      createdAt |-> created,
      updatedAt |-> T_2025_01_15,
      url |-> GITHUB_APACHE \o repo \o <<"/","p","u","l","l","/">> \o IntToStr(number),
      isDraft |-> (number = 7),
      labels |-> IF login = "app/dependabot"
                 THEN <<[name |-> <<"d","e","p","s">>], [name |-> <<"j","a","v","a">>]>>
                 ELSE <<>>,
      statusCheckRollup |-> rollup ]

\* The same object after get_prs_for_repo has added the repository name.
PullRequest(repo, number, title, login, created, rollup) ==
    WithRepository(ListedPullRequest(repo, number, title, login, created, rollup), repo)

PrPool ==
    { PullRequest(maven, 7, "Fix resolver", "alice", T_2024_09_30,
                  <<[state |-> "SUCCESS"]>>),
      PullRequest(maven, 12, "Bump guava", "app/dependabot", T_2024_10_01_PM,
                  <<[conclusion |-> "FAILURE", status |-> "COMPLETED"]>>),
      PullRequest(maven, 120, "Bump junit", "app/dependabot", T_2024_10_01_AM,
                  <<[state |-> "PENDING"], [state |-> "SUCCESS"]>>),
      PullRequest(maven_site, 7, "Typo", "bob", T_2024_10_01_PM, <<>>),
      PullRequest(maven_site, 1234, "Bump doxia", "app/dependabot", T_2025_01_15,
                  <<[state |-> "SUCCESS"]>>),
      PullRequest(maven_jxr, 3, "Bump guava", "app/dependabot", T_2024_10_01_AM,
                  <<[state |-> "ERROR", targetUrl |-> CI_URL]>>) }

InitExport ==
    /\ pc = "call"
    /\ input \in SeqUpTo(PrPool, MaxPrs)
    /\ prs = input
    /\ report = <<>>
    /\ output = <<>>
    /\ RunAtRest
    /\ yaml = [exists |-> FALSE, text |-> <<>>]
    /\ hist = <<>>

Call_export_to_csv ==
    /\ pc = "call"
    /\ report' = [format |-> "csv", rows |-> export_to_csv(prs).rows]
    /\ prs' = export_to_csv(prs).prs
    /\ pc' = "returned"
    /\ UNCHANGED <<args, MAVEN_REPOS, ghInstalled, yaml, repos, archived, remaining,
                   idx, all_prs, crash, events, hist, input, output>>

Call_export_to_asciidoc ==
    /\ pc = "call"
    /\ report' = [format |-> "asciidoc",
                  rows |-> export_to_asciidoc(prs, "Open Maven PRs", "now")]
    /\ pc' = "returned"
    /\ UNCHANGED <<args, MAVEN_REPOS, ghInstalled, yaml, repos, archived, remaining,
                   idx, all_prs, prs, crash, events, hist, input, output>>

NextExport == Call_export_to_csv \/ Call_export_to_asciidoc

SpecExport == InitExport /\ [][NextExport]_vars

\* How often x occurs in the sequence s.
Count(s, x) == Cardinality({i \in 1..Len(s) : s[i] = x})

SameBag(s, t) == Len(s) = Len(t) /\ \A i \in 1..Len(s) : Count(s, s[i]) = Count(t, s[i])

\* The (Repository, PR Number) pairs of the data rows of a CSV file, the
\* number parsed back from its numeral.
CsvPairs(rows) == [i \in 1..(Len(rows) - 1) |-> <<rows[i + 1][1], DecimalValue(rows[i + 1][2])>>]

PairLess(a, b) == StrLess(a[1], b[1]) \/ (a[1] = b[1] /\ a[2] < b[2])

\* C6: export_to_csv of N records writes the header and N data rows whose
\* (Repository, PR Number) pairs are those of the records, duplicates kept,
\* ascending by (repository name, PR number).
C6_CsvRoundTrip ==
    (pc = "returned" /\ report.format = "csv") =>
        LET pairs == CsvPairs(report.rows)
        IN /\ Len(report.rows) = Len(input) + 1
           /\ report.rows[1] = CSV_HEADER
           /\ SameBag(pairs, [i \in 1..Len(input) |->
                                <<input[i].repository.name, input[i].number>>])
           /\ \A i \in 1..(Len(pairs) - 1) : ~PairLess(pairs[i + 1], pairs[i])

\* Three records given out of order, one of them twice, were written.
C6_Witness ==
    /\ pc = "returned"
    /\ report.format = "csv"
    /\ Len(input) = 3
    /\ input[1] = input[3]
    /\ input[1].number = 12
    /\ input[2].number = 7
    /\ input[2].repository.name = maven
    /\ CsvPairs(report.rows) = << <<maven, 7>>, <<maven, 12>>, <<maven, 12>> >>

\* The rows of the table of an AsciiDoc file from line i on: for each pull
\* request the repository of the block it stands in and its four cells.
RECURSIVE AdocRows(_, _, _)
AdocRows(lines, i, block) ==
    IF i > Len(lines) THEN <<>>
    ELSE IF Len(lines[i]) = 0 \/ lines[i][1] = "|===" THEN AdocRows(lines, i + 1, block)
    ELSE IF lines[i][1] = "4+| *" THEN AdocRows(lines, i + 1, lines[i][4])
    ELSE <<[block |-> block, title |-> lines[i][2], createdAt |-> lines[i + 1][2],
            status |-> lines[i + 2][4],
            url |-> lines[i + 3][2], number |-> DecimalValue(lines[i + 3][4])]>>
         \o AdocRows(lines, i + 4, block)

\* The repositories of the block header rows, in the order of the file.
AdocBlockNames(lines) ==
    LET headers == SelectSeq(lines, LAMBDA ln : Len(ln) > 0 /\ ln[1] = "4+| *")
    IN [i \in 1..Len(headers) |-> headers[i][4]]

\* The fields of a timestamp YYYY-MM-DDThh:mm:ssZ as numbers.
TimeFields(ts) ==
    <<DecimalValue(SubSeq(ts, 1, 4)), DecimalValue(SubSeq(ts, 6, 7)),
      DecimalValue(SubSeq(ts, 9, 10)), DecimalValue(SubSeq(ts, 12, 13)),
      DecimalValue(SubSeq(ts, 15, 16)), DecimalValue(SubSeq(ts, 18, 19))>>

\* The instant a is earlier than the instant b.
Earlier(a, b) ==
    \E k \in 1..6 :
        /\ TimeFields(a)[k] < TimeFields(b)[k]
        /\ \A j \in 1..(k - 1) : TimeFields(a)[j] = TimeFields(b)[j]

\* The table body: what follows the eight lines of the preamble.
AdocBody(lines) == SubSeq(lines, 9, Len(lines))

\* C7: export_to_asciidoc writes one block per repository that has a pull
\* request, the blocks ascending by repository name; every pull request
\* stands exactly once in the file, in the block of its repository; and in
\* a block no pull request stands before one created later.
C7_AsciiDocGrouping ==
    (pc = "returned" /\ report.format = "asciidoc") =>
        LET names == AdocBlockNames(AdocBody(report.rows))
            rows == AdocRows(AdocBody(report.rows), 1, <<>>)
        IN /\ Range(names) = {input[i].repository.name : i \in 1..Len(input)}
           /\ \A i \in 1..(Len(names) - 1) : StrLess(names[i], names[i + 1])
           /\ SameBag([i \in 1..Len(rows) |->
                    [block |-> rows[i].block, title |-> rows[i].title,
                     createdAt |-> rows[i].createdAt, url |-> rows[i].url,
                     number |-> rows[i].number]],
                      [i \in 1..Len(input) |->
                    [block |-> input[i].repository.name, title |-> input[i].title,
                     createdAt |-> input[i].createdAt, url |-> input[i].url,
                     number |-> input[i].number]])
           /\ \A i, j \in 1..Len(rows) :
                (i < j /\ rows[i].block = rows[j].block)
                    => ~Earlier(rows[i].createdAt, rows[j].createdAt)

\* Two pull requests of one repository, the older given first, and one of
\* another repository between them, were written: the newer stands first.
C7_Witness ==
    /\ pc = "returned"
    /\ report.format = "asciidoc"
    /\ Len(input) = 3
    /\ input[1].repository.name = maven_site
    /\ input[2].repository.name = maven
    /\ input[3].repository.name = maven_site
    /\ Earlier(input[1].createdAt, input[3].createdAt)
    /\ AdocBlockNames(AdocBody(report.rows)) = <<maven, maven_site>>
    /\ AdocRows(AdocBody(report.rows), 1, <<>>)[2].number = input[3].number

----------------------------------------------------------------------------
(* One run of the script *)

\* Namespaces parse_args can give: author is <<>> for None, <<text>> for
\* --author text.
ArgsPool ==
    { [format |-> f, author |-> a, dependabot |-> d] :
        f \in {"csv", "asciidoc"},
        a \in {<<>>, <<"">>, <<"alice">>, <<"app/dependabot">>},
        d \in BOOLEAN }

\* The YAML file as a run finds it: missing, or listing the repositories.
YamlRunFiles ==
    { [exists |-> FALSE, text |-> <<>>],
      [exists |-> TRUE,
       text |-> JoinLines(<<ItemLine(maven_site), ItemLine(maven), ItemLine(maven_jxr)>>)] }

\* What 'gh pr list' prints for a repository: an empty array or its open
\* pull requests.
Listings(repo) ==
    IF repo = maven
    THEN { <<>>,
           << ListedPullRequest(maven, 12, "Bump guava", "app/dependabot", T_2024_10_01_PM,
                                <<[conclusion |-> "FAILURE", status |-> "COMPLETED"]>>),
              ListedPullRequest(maven, 7, "Fix resolver", "alice", T_2024_09_30,
                                <<[state |-> "SUCCESS"]>>) >> }
    ELSE IF repo = maven_site
    THEN { <<>>,
           << ListedPullRequest(maven_site, 1234, "Bump doxia", "app/dependabot",
                                T_2025_01_15, <<[state |-> "FAILURE"]>>) >> }
    ELSE { <<>>,
           << ListedPullRequest(maven_jxr, 3, "Typo", "bob", T_2024_10_01_AM, <<>>) >> }

\* The state after parse_args.
Init ==
    /\ pc = "main"
    /\ args \in ArgsPool
    /\ MAVEN_REPOS = MAVEN_REPOS_INIT
    /\ ghInstalled \in BOOLEAN
    /\ yaml \in YamlRunFiles
    /\ repos = <<>>
    /\ archived = <<>>
    /\ remaining = <<>>
    /\ idx = 0
    /\ all_prs = <<>>
    /\ prs = <<>>
    /\ report = <<>>
    /\ crash = "none"
    /\ events = <<>>
    /\ hist = <<>>
    /\ input = <<>>
    /\ output = <<>>

\* The main block up to the call of filter_and_cleanup_archived(MAVEN_REPOS)
\* in get_all_maven_prs: the dependabot flag replaces the author.
Main ==
    /\ pc = "main"
    /\ args' = IF args.dependabot THEN [args EXCEPT !.author = <<"app/dependabot">>] ELSE args
    /\ repos' = MAVEN_REPOS
    /\ archived' = <<>>
    /\ remaining' = <<>>
    /\ idx' = 1
    /\ all_prs' = <<>>
    /\ pc' = "check_archived"
    /\ UNCHANGED <<MAVEN_REPOS, ghInstalled, yaml, prs, report, crash, events,
                   hist, input, output>>

\* One turn of the first loop of filter_and_cleanup_archived.
CheckArchived ==
    /\ pc = "check_archived"
    /\ \E outcome \in ViewOutcomes :
        /\ IF gh_check_repo_archived(outcome)
           THEN archived' = Append(archived, repos[idx]) /\ UNCHANGED remaining
           ELSE remaining' = Append(remaining, repos[idx]) /\ UNCHANGED archived
        /\ events' = Append(events,
                [kind |-> "view", repo |-> repos[idx], outcome |-> outcome])
    /\ idx' = IF idx = Len(repos) THEN 1 ELSE idx + 1
    /\ pc' = IF idx = Len(repos) THEN "cleanup" ELSE "check_archived"
    /\ UNCHANGED <<args, MAVEN_REPOS, ghInstalled, yaml, repos, all_prs, prs,
                   report, crash, hist, input, output>>

\* One turn of the loop over archived: remove_repo_from_yaml(r).
Cleanup ==
    /\ pc = "cleanup"
    /\ idx <= Len(archived)
    /\ \E io \in IoOutcomes :
        LET r == remove_repo_from_yaml(archived[idx], yaml, io)
        IN /\ yaml' = r.file
           /\ events' = Append(events,
                [kind |-> "yaml", repo |-> archived[idx],
                 removed |-> r.ret, wrote |-> r.wrote])
    /\ idx' = idx + 1
    /\ UNCHANGED <<pc, args, MAVEN_REPOS, ghInstalled, repos, archived, remaining,
                   all_prs, prs, report, crash, hist, input, output>>

\* filter_and_cleanup_archived returns and get_all_maven_prs assigns the
\* result to the global MAVEN_REPOS.
FilterReturn ==
    /\ pc = "cleanup"
    /\ idx > Len(archived)
    /\ MAVEN_REPOS' = filter_and_cleanup_archived_return(repos, archived, remaining)
    /\ events' = Append(events, [kind |-> "assign"])
    /\ idx' = 1
    /\ pc' = "fetch"
    /\ UNCHANGED <<args, ghInstalled, yaml, repos, archived, remaining, all_prs,
                   prs, report, crash, hist, input, output>>

\* One turn of the loop of get_all_maven_prs: get_prs_for_repo(repo).  An
\* exception it does not catch ends the run.
Fetch ==
    /\ pc = "fetch"
    /\ idx <= Len(MAVEN_REPOS)
    /\ \E outcome \in IF ghInstalled
                      THEN {"listed", "CalledProcessError", "JSONDecodeError"}
                      ELSE {"FileNotFoundError"},
          listed \in Listings(MAVEN_REPOS[idx]) :
        LET r == get_prs_for_repo(MAVEN_REPOS[idx], outcome, listed)
        IN /\ events' = Append(events, [kind |-> "list", repo |-> MAVEN_REPOS[idx]])
           /\ IF r.raised = "none"
              THEN /\ all_prs' = all_prs \o r.prs
                   /\ idx' = idx + 1
                   /\ UNCHANGED <<pc, crash>>
              ELSE /\ crash' = r.raised
                   /\ pc' = "crashed"
                   /\ UNCHANGED <<all_prs, idx>>
    /\ UNCHANGED <<args, MAVEN_REPOS, ghInstalled, yaml, repos, archived, remaining,
                   prs, report, hist, input, output>>

\* get_all_maven_prs returns; the main block filters by author.
FilterByAuthor ==
    /\ pc = "fetch"
    /\ idx > Len(MAVEN_REPOS)
    /\ prs' = AuthorFilter(all_prs, args.author)
    /\ pc' = "export"
    /\ UNCHANGED <<args, MAVEN_REPOS, ghInstalled, yaml, repos, archived, remaining,
                   idx, all_prs, report, crash, events, hist, input, output>>

\* The main block calls export_to_csv and prints its summaries.
ExportCsv ==
    /\ pc = "export"
    /\ args.format # "asciidoc"
    /\ report' = [format |-> "csv", rows |-> export_to_csv(prs).rows]
    /\ prs' = export_to_csv(prs).prs
    /\ events' = Append(events, [kind |-> "write"])
    /\ pc' = "done"
    /\ UNCHANGED <<args, MAVEN_REPOS, ghInstalled, yaml, repos, archived, remaining,
                   idx, all_prs, crash, hist, input, output>>

\* The main block calls export_to_asciidoc and prints its summaries.
ExportAsciidoc ==
    /\ pc = "export"
    /\ args.format = "asciidoc"
    /\ report' = [format |-> "asciidoc",
                  rows |-> export_to_asciidoc(prs,
                      IF args.dependabot THEN "Open Maven Dependabot PRs"
                                         ELSE "Open Maven PRs", "now")]
    /\ events' = Append(events, [kind |-> "write"])
    /\ pc' = "done"
    /\ UNCHANGED <<args, MAVEN_REPOS, ghInstalled, yaml, repos, archived, remaining,
                   idx, all_prs, prs, crash, hist, input, output>>

Next ==
    \/ Main
    \/ CheckArchived
    \/ Cleanup
    \/ FilterReturn
    \/ Fetch
    \/ FilterByAuthor
    \/ ExportCsv
    \/ ExportAsciidoc

Spec == Init /\ [][Next]_vars

\* The events of one kind, in order.
EventsOf(kind) == SelectSeq(events, LAMBDA e : e.kind = kind)

\* The repositories whose archival query answered that they are archived.
ConfirmedArchived ==
    {e.repo : e \in {x \in Range(EventsOf("view")) : x.outcome = "archived_true"}}

\* The repositories whose archival query failed: no binary, a non-zero
\* exit, or a response that is no JSON.
Uncertain ==
    {e.repo : e \in {x \in Range(EventsOf("view")) :
        x.outcome \in {"FileNotFoundError", "CalledProcessError", "JSONDecodeError"}}}

\* The static list without the repositories confirmed archived.
NotConfirmedArchived == SelectSeq(MAVEN_REPOS_INIT, LAMBDA r : r \notin ConfirmedArchived)

FilterReturned == EventsOf("assign") # <<>>

\* C3 (as claimed): no run ends with an uncaught exception raised by a
\* subprocess invocation that failed (a missing binary or a non-zero exit).
C3_SubprocessFailureNeverFatal ==
    crash \notin {"FileNotFoundError", "CalledProcessError"}

\* C4: remove_repo_from_yaml is called only for repositories confirmed
\* archived, so never for one whose query failed; and the list
\* filter_and_cleanup_archived returns is the input list without the
\* repositories confirmed archived, in the input order, so it holds every
\* repository whose query failed.
C4_NeverDeletesOnUncertainty ==
    /\ \A e \in Range(EventsOf("yaml")) : e.repo \in ConfirmedArchived /\ e.repo \notin Uncertain
    /\ FilterReturned =>
          /\ MAVEN_REPOS = NotConfirmedArchived
          /\ Uncertain \subseteq Range(MAVEN_REPOS)

\* The filter returned after one query gave no JSON, one said archived (and
\* its line was removed) and one exited non-zero.
C4_Witness ==
    /\ FilterReturned
    /\ Len(EventsOf("view")) = 3
    /\ EventsOf("view")[1].outcome = "JSONDecodeError"
    /\ EventsOf("view")[2].outcome = "archived_true"
    /\ EventsOf("view")[3].outcome = "CalledProcessError"
    /\ Len(EventsOf("yaml")) = 1
    /\ EventsOf("yaml")[1].removed
    /\ MAVEN_REPOS = <<maven_site, maven_jxr>>

\* What a report says of each pull request it lists: repository, number
\* and build status.
ReportEntries ==
    IF report.format = "csv"
    THEN [i \in 1..(Len(report.rows) - 1) |->
            [repo |-> report.rows[i + 1][1],
             number |-> DecimalValue(report.rows[i + 1][2]),
             status |-> report.rows[i + 1][8]]]
    ELSE LET rows == AdocRows(AdocBody(report.rows), 1, <<>>)
         IN [i \in 1..Len(rows) |->
                [repo |-> rows[i].block, number |-> rows[i].number,
                 status |-> rows[i].status]]

\* The entries a report of exactly the pull requests of `list` holds.
EntriesOf(list) ==
    [i \in 1..Len(list) |->
        [repo |-> list[i].repository.name, number |-> list[i].number,
         status |-> get_build_status(list[i])[1]]]

\* The report lists exactly the fetched pull requests whose login is L.
ReportIsFilteredTo(L) ==
    /\ SameBag(ReportEntries, EntriesOf(SelectSeq(all_prs, LAMBDA pr : pr.author.login = L)))
    /\ report.format = "csv" =>
          \A i \in 2..Len(report.rows) : report.rows[i][4] = L

\* C8 (as claimed): a run started with --author L or --dependabot writes a
\* report of exactly the fetched pull requests whose author login is L,
\* each with the build status the reducer computes.
C8_ReportHoldsTheAuthorsPullRequests ==
    (pc = "done" /\ args.author # <<>>) => ReportIsFilteredTo(args.author[1])

\* The same for a login that is not the empty string.
C8_NonEmptyAuthor ==
    (pc = "done" /\ args.author # <<>> /\ args.author[1] # "") =>
        ReportIsFilteredTo(args.author[1])

ListedRepos == [i \in 1..Len(EventsOf("list")) |-> EventsOf("list")[i].repo]

\* C10: archival checks, YAML edits and the replacement of the working list
\* all come before the first listing call; listing calls go through the
\* filtered list in its order, once each, never for a repository confirmed
\* archived; and the report is written after the last of them.
C10_RunOrder ==
    /\ \A i, j \in 1..Len(events) :
          (i < j /\ events[i].kind \in {"list", "write"})
              => events[j].kind \in {"list", "write"}
    /\ \A i \in 1..Len(events) : events[i].kind = "write" => i = Len(events)
    /\ EventsOf("list") # <<>> =>
          /\ FilterReturned
          /\ [i \in 1..Len(EventsOf("view")) |-> EventsOf("view")[i].repo] = MAVEN_REPOS_INIT
    /\ Len(ListedRepos) <= Len(NotConfirmedArchived)
    /\ ListedRepos = SubSeq(NotConfirmedArchived, 1, Len(ListedRepos))
    /\ EventsOf("write") # <<>> => ListedRepos = NotConfirmedArchived

\* A finished run that found one repository archived, edited the YAML file
\* for it and listed the other two.
C10_Witness ==
    /\ pc = "done"
    /\ ConfirmedArchived = {maven_site}
    /\ \E e \in Range(EventsOf("yaml")) : e.wrote
    /\ ListedRepos = <<maven, maven_jxr>>
    /\ EventsOf("write") # <<>>

====
